---- MODULE Spec2Model ----
(***************************************************************************)
(* Appointment scheduling core of Healem: the Appointment collection with  *)
(* its partial unique index, and the appointment routes (book, status      *)
(* update, field update / reschedule, delete, availability); and the email *)
(* notifications: the EmailNotification collection, the email service and  *)
(* the routes that create and retry a notification.                        *)
(*                                                                         *)
(* Every request is a sequence of atomic store round-trips, one action     *)
(* each; the synchronous code between two awaits belongs to the action of  *)
(* the round-trip that precedes it.                                        *)
(***************************************************************************)
EXTENDS Integers, Sequences, FiniteSets, TLC

VARIABLES appts, nextId, reqs, now, notifs, jobs, handed

vars == <<appts, nextId, reqs, now, notifs, jobs, handed>>

\* the state of the email notifications
mailVars == <<notifs, jobs, handed>>

----------------------------------------------------------------------------
(* Bounds *)

MaxAppts == 3          \* appointment ids ever generated
NumReqs == 2           \* requests served, in any interleaving
MaxTarget == 1         \* appointment ids a request names in its path
NumRacers == 3         \* concurrent identical bookings in the race scenario
MaxNow == 1            \* last instant the clock reaches
MaxNotifs == 1         \* email notifications ever stored
NumJobs == 3           \* runs of the notification routes and service methods

ApptIds == 1..MaxAppts
TargetIds == 1..MaxTarget
ReqIds == 1..NumReqs

----------------------------------------------------------------------------
(* User directory (static): id -> role, isActive *)

Patients == {"p1", "p2"}
Doctors == {"d1", "d2"}
Users == Patients \cup Doctors \cup {"a1", "n1"}

RoleOf(u) ==
  IF u \in Patients THEN "patient"
  ELSE IF u \in Doctors THEN "doctor"
  ELSE IF u = "a1" THEN "admin"
  ELSE "nurse"

\* "dx" is a deactivated doctor account, never a caller (authenticate rejects it)
Directory == Users \cup {"dx"}
IsActive(u) == u # "dx"
DirRole(u) == IF u = "dx" THEN "doctor" ELSE RoleOf(u)

----------------------------------------------------------------------------
(* Time strings: sequences of character codes, digits 0..9 and ':' (which  *)
(* sorts after every digit, as in ASCII).                                  *)

Colon == 10

T0900 == <<0, 9, Colon, 0, 0>>
T0930 == <<0, 9, Colon, 3, 0>>
T1000 == <<1, 0, Colon, 0, 0>>
T900 == <<9, Colon, 0, 0>>

\* String order of the store ($lt / $gt on strings): lexicographic by code
RECURSIVE StrLess(_, _)
StrLess(a, b) ==
  IF b = <<>> THEN FALSE
  ELSE IF a = <<>> THEN TRUE
  ELSE IF Head(a) # Head(b) THEN Head(a) < Head(b)
  ELSE StrLess(Tail(a), Tail(b))

ColonPos(t) == CHOOSE i \in 1..Len(t) : t[i] = Colon

RECURSIVE ToNumber(_)
ToNumber(ds) ==
  IF ds = <<>> THEN 0
  ELSE 10 * ToNumber(SubSeq(ds, 1, Len(ds) - 1)) + ds[Len(ds)]

\* t.split(':').map(Number), then [0] * 60 + [1]
Minutes(t) ==
  LET p == ColonPos(t)
  IN ToNumber(SubSeq(t, 1, p - 1)) * 60 + ToNumber(SubSeq(t, p + 1, Len(t)))

\* /^([0-1]?[0-9]|2[0-3]):[0-5][0-9]$/
MatchesTime(t) ==
  /\ \E i \in 1..Len(t) : t[i] = Colon
  /\ LET p == ColonPos(t)
         h == SubSeq(t, 1, p - 1)
         m == SubSeq(t, p + 1, Len(t))
     IN /\ \A i \in 1..Len(t) : i # p => t[i] \in 0..9
        /\ \/ Len(h) = 1
           \/ Len(h) = 2 /\ h[1] \in {0, 1}
           \/ Len(h) = 2 /\ h[1] = 2 /\ h[2] \in 0..3
        /\ Len(m) = 2 /\ m[1] \in 0..5

----------------------------------------------------------------------------
(* Dates: appointmentDate is an instant, counted in half-days.  The clock   *)
(* (new Date()) starts before every date a request names.                  *)

Dates == {0, 1}
DayLen == 2
StartTime == -1

----------------------------------------------------------------------------
(* Reason strings: a run of spaces, a run of other characters, a run of    *)
(* spaces, written <<lead, core, trail>>; <<0, 0, 0>> is the empty string. *)

ReasonMin == 10
ReasonMax == 500

StrLen(s) == s[1] + s[2] + s[3]

\* String.prototype.trim
Trim(s) == IF s[2] = 0 THEN <<0, 0, 0>> ELSE <<0, s[2], 0>>

\* a missing reason and the empty string behave alike (falsy, length 0)
NoReason == <<0, 0, 0>>
ValidReason == <<0, 10, 0>>

types == {"consultation", "follow-up", "check-up", "emergency", "surgery"}
priorities == {"low", "medium", "high", "urgent"}

----------------------------------------------------------------------------
(* The Appointment collection *)

NoAppt == [status |-> "absent"]

\* a field the request body does not carry
Absent == "none"
NoDate == -1
NoTime == <<>>

validStatuses == {"pending", "confirmed", "cancelled", "completed", "no-show"}
ActiveStatuses == {"pending", "confirmed"}

Stored(store) == {i \in ApptIds : store[i] # NoAppt}
Active(store) == {i \in Stored(store) : store[i].status \in ActiveStatuses}

\* mutant: the schema without its pre('save') hook
PreSaveOkNoHook(doc) == TRUE

\* appointmentSchema.pre('save'): TRUE when the hook passes
PreSaveOk(doc) == ~ (Minutes(doc.start) >= Minutes(doc.end))

\* the partial unique index {doctor, appointmentDate, start, end}
IndexKey(doc) == <<doc.doctor, doc.appointmentDate, doc.start, doc.end>>

\* mutant: the index declared without unique: true
DuplicateKeyNotUnique(store, id, doc) == FALSE

\* mutant: the unique index declared without its partialFilterExpression
DuplicateKeyAnyStatus(store, id, doc) ==
  \E j \in Stored(store) : j # id /\ IndexKey(store[j]) = IndexKey(doc)

\* mutant: uniqueness enforced for inserted documents only
DuplicateKeyOnInsert(store, id, doc) ==
  /\ store[id] = NoAppt
  /\ doc.status \in ActiveStatuses
  /\ \E j \in Active(store) : j # id /\ IndexKey(store[j]) = IndexKey(doc)

DuplicateKey(store, id, doc) ==
  /\ doc.status \in ActiveStatuses
  /\ \E j \in Active(store) : j # id /\ IndexKey(store[j]) = IndexKey(doc)

\* Appointment.checkAvailability(doctorId, date, timeSlot)
checkAvailability(store, doctorId, date, start, end) ==
  ~ \E j \in Stored(store) :
       /\ store[j].doctor = doctorId
       /\ store[j].appointmentDate = date
       /\ StrLess(store[j].start, end)
       /\ StrLess(start, store[j].end)
       /\ store[j].status \in ActiveStatuses

----------------------------------------------------------------------------
(* Requests *)

Idle == [pc |-> "idle"]

Free(r) == reqs[r].pc = "idle"

\* res.status(code).json({message, errors}): the request ends; what is kept
\* of it is who asked for what on which appointment, the doctor, the date
\* and the status field that the body of a booking carried, whether the body
\* of a field update carried exactly one of date and time slot, and the
\* response
Done(rec, code, message, errors) ==
  [pc |-> "done", op |-> rec.op, user |-> rec.user, appt |-> rec.appt,
   doctor |-> rec.doctor,
   appointmentDate |-> IF rec.op = "book" THEN rec.appointmentDate ELSE NoDate,
   extra |-> IF rec.op = "book" THEN rec.status
             ELSE IF /\ rec.op = "update"
                     /\ (rec.appointmentDate = NoDate) # (rec.start = NoTime)
             THEN "partial"
             ELSE Absent,
   resp |-> code, message |-> message, errors |-> errors, result |-> {},
   total |-> 0]

\* a response that carries appointments: the ids of those it returns
DoneWith(rec, code, message, result) ==
  [Done(rec, code, message, {}) EXCEPT !.result = result]

NewReq(op, u, id, doctor, date, start, end, status) ==
  [pc |-> "begin", op |-> op, user |-> u, appt |-> id, doctor |-> doctor,
   appointmentDate |-> date, start |-> start, end |-> end, status |-> status,
   reason |-> NoReason, type |-> Absent, priority |-> Absent,
   notes |-> Absent, snap |-> NoAppt, resp |-> 0]

\* time slots a request body carries: two overlapping slots, one with a
\* one-digit hour, one whose end is not after its start
SlotInputs ==
  { <<T0900, T0930>>, <<T0900, T1000>>, <<T900, T1000>>, <<T0930, T0900>> }

BookDoctors == {"d1", "dx"}

\* req.body of a booking
BookBody(d, date, slot, reason, type, priority, status) ==
  [doctor |-> d, appointmentDate |-> date, start |-> slot[1], end |-> slot[2],
   reason |-> reason, type |-> type, priority |-> priority, status |-> status]

\* req.body of a field update
UpdateBody(date, slot, reason, type, priority) ==
  [appointmentDate |-> date, start |-> slot[1], end |-> slot[2],
   reason |-> reason, type |-> type, priority |-> priority]

----------------------------------------------------------------------------
(* middleware *)

\* mutant: the role list ignored
authorizeAnyRole(roles, u) == TRUE

\* authorize(...roles): TRUE when the request goes on
authorize(roles, u) == ~ (roles # {} /\ RoleOf(u) \notin roles)

\* mutant: the gate without its isDoctor test
authorizeAppointmentAccessNoDoctor(u, appointment) ==
  LET isPatient == u = appointment.patient
      isAdminOrNurse == RoleOf(u) \in {"admin", "nurse"}
  IN ~ (~isPatient /\ ~isAdminOrNurse)

\* authorizeAppointmentAccess, after the appointment was found
authorizeAppointmentAccess(u, appointment) ==
  LET isPatient == u = appointment.patient
      isDoctor == u = appointment.doctor
      isAdminOrNurse == RoleOf(u) \in {"admin", "nurse"}
  IN ~ (~isPatient /\ ~isDoctor /\ ~isAdminOrNurse)

\* mutant: the date check with < for <=
validateAppointmentStrict(body) ==
  {f \in {"appointmentDate", "timeSlot.start", "timeSlot.end", "reason",
          "type", "priority"} :
     \/ f = "appointmentDate" /\ body.appointmentDate < now
     \/ f = "timeSlot.start" /\ ~ MatchesTime(body.start)
     \/ f = "timeSlot.end" /\ ~ MatchesTime(body.end)
     \/ f = "reason" /\ ~ (/\ StrLen(Trim(body.reason)) >= ReasonMin
                           /\ StrLen(Trim(body.reason)) <= ReasonMax)
     \/ f = "type" /\ body.type # Absent /\ body.type \notin types
     \/ f = "priority" /\ body.priority # Absent /\ body.priority \notin priorities}

\* validateAppointment: the fields of the body that fail their chain (the
\* paths of errors.array()); the reason is trimmed before it is measured
validateAppointment(body) ==
  {f \in {"appointmentDate", "timeSlot.start", "timeSlot.end", "reason",
          "type", "priority"} :
     \/ f = "appointmentDate" /\ body.appointmentDate <= now
     \/ f = "timeSlot.start" /\ ~ MatchesTime(body.start)
     \/ f = "timeSlot.end" /\ ~ MatchesTime(body.end)
     \/ f = "reason" /\ ~ (/\ StrLen(Trim(body.reason)) >= ReasonMin
                           /\ StrLen(Trim(body.reason)) <= ReasonMax)
     \/ f = "type" /\ body.type # Absent /\ body.type \notin types
     \/ f = "priority" /\ body.priority # Absent /\ body.priority \notin priorities}

\* the schema's validators, run by save() on the paths in modified
SchemaValid(doc, modified) ==
  /\ "appointmentDate" \in modified => doc.appointmentDate > now
  /\ "start" \in modified => MatchesTime(doc.start)
  /\ "end" \in modified => MatchesTime(doc.end)
  /\ "status" \in modified => doc.status \in validStatuses
  /\ "type" \in modified => doc.type \in types
  /\ "priority" \in modified => doc.priority \in priorities
  /\ doc.reason # NoReason
  /\ "reason" \in modified => StrLen(doc.reason) <= ReasonMax

----------------------------------------------------------------------------
(* POST /  : book an appointment *)

\* mutant: the lookup without the tests of role and isActive
ValidDoctorAnyUser(d) == d \in Directory

\* what the check of doctorUser lets through
ValidDoctor(d) == d \in Directory /\ DirRole(d) = "doctor" /\ IsActive(d)

\* authenticate, authorize('patient'), validateAppointment, User.findById(doctor)
BookBegin(r, u, body) ==
  LET rec == [NewReq("book", u, 0, body.doctor, body.appointmentDate,
                     body.start, body.end, body.status)
                EXCEPT !.reason = Trim(body.reason), !.type = body.type,
                       !.priority = body.priority]
      errors == validateAppointment(body)
  IN /\ Free(r)
     /\ reqs' = [reqs EXCEPT ![r] =
          IF ~ authorize({"patient"}, u)
          THEN Done(rec, 403, "Access denied. Insufficient permissions.", {})
          ELSE IF errors # {}
          THEN Done(rec, 400, "Validation failed", errors)
          ELSE IF ~ ValidDoctor(body.doctor)
          THEN Done(rec, 400, "Invalid or inactive doctor selected", {})
          ELSE [rec EXCEPT !.pc = "save"]]
     /\ UNCHANGED <<appts, nextId, now, mailVars>>

\* mutant: the constructor handed the whole body
NewAppointmentFromBody(rec) ==
  [patient |-> rec.user, doctor |-> rec.doctor,
   appointmentDate |-> rec.appointmentDate,
   start |-> rec.start, end |-> rec.end,
   status |-> IF rec.status = Absent THEN "pending" ELSE rec.status,
   reason |-> rec.reason,
   type |-> IF rec.type = Absent THEN "consultation" ELSE rec.type,
   priority |-> IF rec.priority = Absent THEN "medium" ELSE rec.priority,
   notesPatient |-> Absent, notesDoctor |-> Absent, notesAdmin |-> Absent,
   cancelledBy |-> Absent, cancellationReason |-> Absent]

\* new Appointment({patient: req.user._id, doctor, appointmentDate, timeSlot,
\* reason, type: type || 'consultation', priority: priority || 'medium'});
\* the status is the schema's default
NewAppointment(rec) ==
  [patient |-> rec.user, doctor |-> rec.doctor,
   appointmentDate |-> rec.appointmentDate,
   start |-> rec.start, end |-> rec.end, status |-> "pending",
   reason |-> rec.reason,
   type |-> IF rec.type = Absent THEN "consultation" ELSE rec.type,
   priority |-> IF rec.priority = Absent THEN "medium" ELSE rec.priority,
   notesPatient |-> Absent, notesDoctor |-> Absent, notesAdmin |-> Absent,
   cancelledBy |-> Absent, cancellationReason |-> Absent]

\* appointment.save() of a new document, and the response
BookSave(r) ==
  LET rec == reqs[r]
      doc == NewAppointment(rec)
  IN /\ rec.pc = "save" /\ rec.op = "book"
     /\ nextId <= MaxAppts
     /\ UNCHANGED <<now, mailVars>>
     /\ IF ~ SchemaValid(doc, DOMAIN doc)
        THEN /\ reqs' = [reqs EXCEPT ![r] =
                           Done(rec, 500, "Failed to book appointment", {})]
             /\ UNCHANGED <<appts, nextId>>
        ELSE IF ~ PreSaveOk(doc)
        THEN /\ reqs' = [reqs EXCEPT ![r] =
                           Done(rec, 500, "Failed to book appointment", {})]
             /\ UNCHANGED <<appts, nextId>>
        ELSE IF DuplicateKey(appts, nextId, doc)
        THEN /\ reqs' = [reqs EXCEPT ![r] =
                           Done(rec, 409,
                                "Doctor is not available at the selected time slot", {})]
             /\ UNCHANGED <<appts, nextId>>
        ELSE /\ appts' = [appts EXCEPT ![nextId] = doc]
             /\ nextId' = nextId + 1
             /\ reqs' = [reqs EXCEPT ![r] =
                           Done([rec EXCEPT !.appt = nextId], 201,
                                "Appointment booked successfully", {})]

----------------------------------------------------------------------------
(* PATCH /:id/status *)

canUpdateStatus(u, appointment, status) ==
  \/ RoleOf(u) = "admin"
  \/ RoleOf(u) = "nurse"
  \/ RoleOf(u) = "doctor" /\ u = appointment.doctor
  \/ RoleOf(u) = "patient" /\ u = appointment.patient /\ status = "cancelled"

\* authorizeAppointmentAccess (findById), then the handler up to save()
StatusBegin(r, u, id, status, notes) ==
  LET rec == [NewReq("status", u, id, Absent, NoDate, NoTime, NoTime, status)
                EXCEPT !.notes = notes]
      appointment == appts[id]
  IN /\ Free(r)
     /\ reqs' = [reqs EXCEPT ![r] =
          IF appointment = NoAppt
          THEN Done(rec, 404, "Appointment not found.", {})
          ELSE IF ~ authorizeAppointmentAccess(u, appointment)
          THEN Done(rec, 403, "Access denied to this appointment.", {})
          ELSE IF status \notin validStatuses
          THEN Done(rec, 400, "Invalid status", {})
          ELSE IF ~ canUpdateStatus(u, appointment, status)
          THEN Done(rec, 403, "Not authorized to update appointment status", {})
          ELSE [rec EXCEPT !.pc = "save", !.snap = appointment]]
     /\ UNCHANGED <<appts, nextId, now, mailVars>>

\* what save() of a loaded document does to the stored one: the modified
\* paths are $set, the others keep their stored values
SetModified(stored, snap, doc) ==
  [f \in DOMAIN stored |-> IF doc[f] # snap[f] THEN doc[f] ELSE stored[f]]

\* appointment.save() of a loaded document: 200, or 500 for any error
SaveLoaded(r, rec, doc, done, failed) ==
  LET id == rec.appt
      modified == {f \in DOMAIN doc : doc[f] # rec.snap[f]}
  IN /\ UNCHANGED <<now, mailVars>>
     /\ IF ~ SchemaValid(doc, modified)
        THEN /\ reqs' = [reqs EXCEPT ![r] = Done(rec, 500, failed, {})]
             /\ UNCHANGED <<appts, nextId>>
        ELSE IF ~ PreSaveOk(doc)
        THEN /\ reqs' = [reqs EXCEPT ![r] = Done(rec, 500, failed, {})]
             /\ UNCHANGED <<appts, nextId>>
        ELSE IF appts[id] = NoAppt
        THEN /\ reqs' = [reqs EXCEPT ![r] = Done(rec, 500, failed, {})]
             /\ UNCHANGED <<appts, nextId>>
        ELSE IF DuplicateKey(appts, id, SetModified(appts[id], rec.snap, doc))
        THEN /\ reqs' = [reqs EXCEPT ![r] = Done(rec, 500, failed, {})]
             /\ UNCHANGED <<appts, nextId>>
        ELSE /\ appts' = [appts EXCEPT ![id] = SetModified(appts[id], rec.snap, doc)]
             /\ reqs' = [reqs EXCEPT ![r] = Done(rec, 200, done, {})]
             /\ UNCHANGED nextId

\* mutant: the handler without its cancel side effects
StatusDocNoCancelFields(rec) ==
  LET role == RoleOf(rec.user)
      b == [rec.snap EXCEPT !.status = rec.status]
  IN IF rec.notes = Absent THEN b
     ELSE IF role = "doctor" THEN [b EXCEPT !.notesDoctor = rec.notes]
     ELSE IF role = "patient" THEN [b EXCEPT !.notesPatient = rec.notes]
     ELSE IF role \in {"admin", "nurse"} THEN [b EXCEPT !.notesAdmin = rec.notes]
     ELSE b

\* mutant: the notes are stored for every role at once
StatusDocAllNotes(rec) ==
  LET a == [rec.snap EXCEPT !.status = rec.status]
      b == IF rec.status = "cancelled"
           THEN [a EXCEPT !.cancelledBy = rec.user,
                          !.cancellationReason = rec.notes]
           ELSE a
  IN IF rec.notes = Absent THEN b
     ELSE [b EXCEPT !.notesDoctor = rec.notes, !.notesPatient = rec.notes,
                    !.notesAdmin = rec.notes]

\* the loaded document after the handler's assignments
StatusDoc(rec) ==
  LET role == RoleOf(rec.user)
      a == [rec.snap EXCEPT !.status = rec.status]
      b == IF rec.status = "cancelled"
           THEN [a EXCEPT !.cancelledBy = rec.user,
                          !.cancellationReason = rec.notes]
           ELSE a
  IN IF rec.notes = Absent THEN b
     ELSE IF role = "doctor" THEN [b EXCEPT !.notesDoctor = rec.notes]
     ELSE IF role = "patient" THEN [b EXCEPT !.notesPatient = rec.notes]
     ELSE IF role \in {"admin", "nurse"} THEN [b EXCEPT !.notesAdmin = rec.notes]
     ELSE b

StatusSave(r) ==
  LET rec == reqs[r]
  IN /\ rec.pc = "save" /\ rec.op = "status"
     /\ SaveLoaded(r, rec, StatusDoc(rec),
                   "Appointment status updated successfully",
                   "Failed to update appointment status")

----------------------------------------------------------------------------
(* PUT /:id  : field update, reschedule *)

\* mutant: the rule without its test of the status, and open to the owning doctor
canUpdateOwner(u, appointment) ==
  \/ RoleOf(u) = "admin"
  \/ RoleOf(u) = "nurse"
  \/ RoleOf(u) = "patient" /\ u = appointment.patient
  \/ RoleOf(u) = "doctor" /\ u = appointment.doctor

canUpdate(u, appointment) ==
  \/ RoleOf(u) = "admin"
  \/ RoleOf(u) = "nurse"
  \/ RoleOf(u) = "patient" /\ u = appointment.patient
       /\ appointment.status = "pending"

Reschedules(rec) == rec.appointmentDate # NoDate /\ rec.start # NoTime

\* authorizeAppointmentAccess (findById), then the handler up to its first await
UpdateBegin(r, u, id, body) ==
  LET rec == [NewReq("update", u, id, Absent, body.appointmentDate,
                     body.start, body.end, Absent)
                EXCEPT !.reason = body.reason, !.type = body.type,
                       !.priority = body.priority]
      appointment == appts[id]
  IN /\ Free(r)
     /\ reqs' = [reqs EXCEPT ![r] =
          IF appointment = NoAppt
          THEN Done(rec, 404, "Appointment not found.", {})
          ELSE IF ~ authorizeAppointmentAccess(u, appointment)
          THEN Done(rec, 403, "Access denied to this appointment.", {})
          ELSE IF ~ canUpdate(u, appointment)
          THEN Done(rec, 403,
                    "Not authorized to update this appointment or appointment cannot be modified",
                    {})
          ELSE [rec EXCEPT !.pc = IF Reschedules(rec) THEN "check" ELSE "save",
                           !.snap = appointment]]
     /\ UNCHANGED <<appts, nextId, now, mailVars>>

\* await Appointment.checkAvailability(appointment.doctor, appointmentDate, timeSlot)
UpdateCheck(r) ==
  LET rec == reqs[r]
  IN /\ rec.pc = "check" /\ rec.op = "update"
     /\ reqs' = [reqs EXCEPT ![r] =
          IF ~ checkAvailability(appts, rec.snap.doctor, rec.appointmentDate,
                                 rec.start, rec.end)
          THEN Done(rec, 409,
                    "Doctor is not available at the selected time slot", {})
          ELSE [rec EXCEPT !.pc = "save"]]
     /\ UNCHANGED <<appts, nextId, now, mailVars>>

\* mutant: each of appointmentDate and timeSlot assigned when present
UpdateDocEither(rec) ==
  LET a0 == IF rec.appointmentDate # NoDate
            THEN [rec.snap EXCEPT !.appointmentDate = rec.appointmentDate]
            ELSE rec.snap
      a == IF rec.start # NoTime
           THEN [a0 EXCEPT !.start = rec.start, !.end = rec.end]
           ELSE a0
      b == IF rec.reason # NoReason THEN [a EXCEPT !.reason = Trim(rec.reason)]
           ELSE a
      c == IF rec.type # Absent THEN [b EXCEPT !.type = rec.type] ELSE b
  IN IF rec.priority # Absent THEN [c EXCEPT !.priority = rec.priority] ELSE c

\* the loaded document after the handler's assignments; the schema trims
\* the reason it is given
UpdateDoc(rec) ==
  LET a == IF Reschedules(rec)
           THEN [rec.snap EXCEPT !.appointmentDate = rec.appointmentDate,
                                 !.start = rec.start, !.end = rec.end]
           ELSE rec.snap
      b == IF rec.reason # NoReason THEN [a EXCEPT !.reason = Trim(rec.reason)]
           ELSE a
      c == IF rec.type # Absent THEN [b EXCEPT !.type = rec.type] ELSE b
  IN IF rec.priority # Absent THEN [c EXCEPT !.priority = rec.priority] ELSE c

UpdateSave(r) ==
  LET rec == reqs[r]
  IN /\ rec.pc = "save" /\ rec.op = "update"
     /\ SaveLoaded(r, rec, UpdateDoc(rec),
                   "Appointment updated successfully",
                   "Failed to update appointment")

----------------------------------------------------------------------------
(* GET /  : the appointment list *)

\* a query parameter that the request does not carry
NoNumber == -1

\* req.query of a list request
ListQuery(status, date, doctorId, patientId, page, limit) ==
  [status |-> status, date |-> date, doctorId |-> doctorId,
   patientId |-> patientId, page |-> page, limit |-> limit]

\* validatePagination: TRUE when the request goes on
validatePagination(page, limit) ==
  /\ page # NoNumber => page >= 1
  /\ limit # NoNumber => (limit >= 1 /\ limit <= 100)

\* mutant: the doctorId and patientId filters applied for every role
listFilterAnyRole(u, q) ==
  [patient |-> IF q.patientId # Absent THEN q.patientId
               ELSE IF RoleOf(u) = "patient" THEN u ELSE Absent,
   doctor |-> IF q.doctorId # Absent THEN q.doctorId
              ELSE IF RoleOf(u) = "doctor" THEN u ELSE Absent,
   status |-> q.status, date |-> q.date]

\* the query object the handler builds from the caller and req.query
listFilter(u, q) ==
  [patient |-> IF q.patientId # Absent /\ RoleOf(u) \in {"admin", "nurse", "doctor"}
               THEN q.patientId
               ELSE IF RoleOf(u) = "patient" THEN u ELSE Absent,
   doctor |-> IF q.doctorId # Absent /\ RoleOf(u) \in {"admin", "nurse"}
              THEN q.doctorId
              ELSE IF RoleOf(u) = "doctor" THEN u ELSE Absent,
   status |-> q.status, date |-> q.date]

\* the documents a query object matches
Matching(store, f) ==
  {i \in Stored(store) :
     /\ f.patient # Absent => store[i].patient = f.patient
     /\ f.doctor # Absent => store[i].doctor = f.doctor
     /\ f.status # Absent => store[i].status = f.status
     /\ f.date # NoDate => (/\ store[i].appointmentDate >= f.date
                            /\ store[i].appointmentDate < f.date + DayLen)}

\* sort({ appointmentDate: 1, 'timeSlot.start': 1 }): a comes before b
SortsBefore(a, b) ==
  \/ a.appointmentDate < b.appointmentDate
  \/ a.appointmentDate = b.appointmentDate /\ StrLess(a.start, b.start)

\* the orders the sort can return the documents of ids in (ties in any order)
Sorted(store, ids) ==
  {seq \in [1..Cardinality(ids) -> ids] :
     /\ \A m, n \in DOMAIN seq : m # n => seq[m] # seq[n]
     /\ \A m, n \in DOMAIN seq : m < n => ~ SortsBefore(store[seq[n]], store[seq[m]])}

\* skip(skip).limit(limit) of a sorted sequence: the ids on the page
Page(seq, page, limit) ==
  LET skip == (page - 1) * limit
  IN {seq[k] : k \in {k \in DOMAIN seq : k > skip /\ k <= skip + limit}}

\* authenticate, validatePagination, Appointment.find(query).sort().skip().limit()
ListFind(r, u, q) ==
  LET page == IF q.page = NoNumber THEN 1 ELSE q.page
      limit == IF q.limit = NoNumber THEN 10 ELSE q.limit
      rec == [pc |-> "count", op |-> "list", user |-> u, appt |-> 0,
              doctor |-> q.doctorId, filter |-> listFilter(u, q),
              page |-> page, limit |-> limit, result |-> {}]
  IN /\ Free(r)
     /\ IF ~ validatePagination(q.page, q.limit)
        THEN reqs' = [reqs EXCEPT ![r] = Done(rec, 400, "Validation failed", {"page"})]
        ELSE \E seq \in Sorted(appts, Matching(appts, rec.filter)) :
               reqs' = [reqs EXCEPT ![r] =
                          [rec EXCEPT !.result = Page(seq, page, limit)]]
     /\ UNCHANGED <<appts, nextId, now, mailVars>>

\* Appointment.countDocuments(query) and res.json({ appointments, pagination })
ListCount(r) ==
  LET rec == reqs[r]
  IN /\ rec.pc = "count" /\ rec.op = "list"
     /\ reqs' = [reqs EXCEPT ![r] =
          [DoneWith(rec, 200, "", rec.result)
             EXCEPT !.total = Cardinality(Matching(appts, rec.filter))]]
     /\ UNCHANGED <<appts, nextId, now, mailVars>>

----------------------------------------------------------------------------
(* GET /:id *)

\* authorizeAppointmentAccess (findById)
ReadBegin(r, u, id) ==
  LET rec == NewReq("read", u, id, Absent, NoDate, NoTime, NoTime, Absent)
      appointment == appts[id]
  IN /\ Free(r)
     /\ reqs' = [reqs EXCEPT ![r] =
          IF appointment = NoAppt
          THEN Done(rec, 404, "Appointment not found.", {})
          ELSE IF ~ authorizeAppointmentAccess(u, appointment)
          THEN Done(rec, 403, "Access denied to this appointment.", {})
          ELSE [rec EXCEPT !.pc = "fetch", !.snap = appointment]]
     /\ UNCHANGED <<appts, nextId, now, mailVars>>

\* Appointment.findById(req.params.id) and res.json({ appointment }); the
\* appointment is null when it was deleted since the gate
ReadFetch(r) ==
  LET rec == reqs[r]
  IN /\ rec.pc = "fetch" /\ rec.op = "read"
     /\ reqs' = [reqs EXCEPT ![r] =
          DoneWith(rec, 200, "", IF appts[rec.appt] = NoAppt THEN {} ELSE {rec.appt})]
     /\ UNCHANGED <<appts, nextId, now, mailVars>>

----------------------------------------------------------------------------
(* DELETE /:id *)

\* authorize('admin'), Appointment.findByIdAndDelete
Delete(r, u, id) ==
  LET rec == NewReq("delete", u, id, Absent, NoDate, NoTime, NoTime, Absent)
  IN /\ Free(r)
     /\ IF ~ authorize({"admin"}, u)
        THEN /\ reqs' = [reqs EXCEPT ![r] =
                           Done(rec, 403, "Access denied. Insufficient permissions.", {})]
             /\ UNCHANGED appts
        ELSE IF appts[id] = NoAppt
        THEN /\ reqs' = [reqs EXCEPT ![r] = Done(rec, 404, "Appointment not found", {})]
             /\ UNCHANGED appts
        ELSE /\ appts' = [appts EXCEPT ![id] = NoAppt]
             /\ reqs' = [reqs EXCEPT ![r] =
                           Done(rec, 200, "Appointment deleted successfully", {})]
     /\ UNCHANGED <<nextId, now, mailVars>>

----------------------------------------------------------------------------
(* The clock *)

\* time passes between two store round-trips
Tick ==
  /\ now < MaxNow
  /\ now' = now + 1
  /\ UNCHANGED <<appts, nextId, reqs, mailVars>>

----------------------------------------------------------------------------
(* Email notifications: the EmailNotification collection, the email        *)
(* service (sendEmail, processPendingEmails, retryFailedEmails) and the    *)
(* routes POST / and POST /:id/retry of the email notification router.     *)
(* A job is one run of a route or of a service method; as for requests,    *)
(* each action is one store round-trip or the call of the provider.        *)

NotifIds == 1..MaxNotifs
JobIds == 1..NumJobs

\* a date field that is not set
Never == -9

\* attempts: max 5 in the schema; attempts: {$lt: 5} in processPendingEmails
MaxAttempts == 5

\* retryFailedEmails(maxRetries = 3)
MaxRetries == 3

\* the 30 minutes retryFailedEmails waits after lastAttempt, in instants
RetryDelay == 1

\* .limit(limit) of processPendingEmails and .limit(20) of retryFailedEmails
ProcessLimit == 50
RetryLimit == 20

NoNotif == [status |-> "absent"]

Notification(status, attempts, scheduledFor, lastAttempt) ==
  [status |-> status, attempts |-> attempts, scheduledFor |-> scheduledFor,
   lastAttempt |-> lastAttempt, sentAt |-> Never]

IdleJob == [pc |-> "idle"]

\* no notification stored, no job running
MailIdle ==
  /\ notifs = [n \in NotifIds |-> NoNotif]
  /\ jobs = [j \in JobIds |-> IdleJob]
  /\ handed = [n \in NotifIds |-> 0]

\* a run: the notification it is at, the documents its find returned and
\* has not handled yet, the caller's document with the values it had when
\* last loaded or saved, the document sendEmail loaded, what the provider
\* answered and how sendEmail ended
NewJob(kind) ==
  [pc |-> "begin", kind |-> kind, notif |-> 0, todo |-> <<>>,
   doc |-> NoNotif, base |-> NoNotif, loaded |-> NoNotif,
   provider |-> "none", ret |-> "none", resp |-> 0]

\* the run ends; what is kept is the response with the status it reports,
\* the provider's answer and the way sendEmail ended
DoneJob(job, code) ==
  [pc |-> "done", kind |-> job.kind, notif |-> job.notif,
   provider |-> job.provider, ret |-> job.ret, resp |-> code,
   status |-> job.doc.status]

\* emailNotificationSchema.methods.markAsSent, up to its save
markAsSent(doc) == [doc EXCEPT !.status = "sent", !.sentAt = now]

\* emailNotificationSchema.methods.markAsFailed, up to its save
markAsFailed(doc) ==
  [doc EXCEPT !.status = "failed", !.attempts = @ + 1, !.lastAttempt = now]

\* the schema's validators, run by save() on the modified paths
NotifValid(doc, base) ==
  doc.attempts # base.attempts => doc.attempts <= MaxAttempts

\* a new pending period begins when the stored status becomes pending
PeriodCount(old, new, count) ==
  IF old.status # "pending" /\ new.status = "pending" THEN 0 ELSE count

\* the ids in ids by ascending key, then id
RECURSIVE InOrder(_, _)
InOrder(ids, key) ==
  IF ids = {} THEN <<>>
  ELSE LET first == CHOOSE n \in ids :
                      \A m \in ids : \/ key[n] < key[m]
                                     \/ key[n] = key[m] /\ n <= m
       IN <<first>> \o InOrder(ids \ {first}, key)

\* find(...).sort(...).limit(limit): the documents as they are read
Found(ids, key, limit) ==
  LET seq == InOrder(ids, key)
      len == IF Len(seq) < limit THEN Len(seq) ELSE limit
  IN [k \in 1..len |-> [id |-> seq[k], doc |-> notifs[seq[k]]]]

\* the loop of a service method at the documents in todo
StartItem(job, todo) ==
  IF todo = <<>> THEN DoneJob(job, 0)
  ELSE LET it == Head(todo)
           j0 == [job EXCEPT !.todo = todo, !.notif = it.id,
                             !.provider = "none", !.ret = "none",
                             !.loaded = NoNotif]
       IN IF job.kind = "process"
          THEN [j0 EXCEPT !.pc = "send"]
          ELSE [j0 EXCEPT !.pc = "reset", !.base = it.doc,
                          !.doc = [it.doc EXCEPT !.status = "pending"]]

\* sendEmail returns true or false, or throws: a route goes on to its save,
\* a service method to the next document of its loop
Return(job, ret) ==
  IF job.kind \in {"create", "retry"}
  THEN [job EXCEPT !.ret = ret, !.pc = "after"]
  ELSE StartItem([job EXCEPT !.ret = ret], Tail(job.todo))

\* router.post('/'): authorize, the insert, and the test for immediate sending
CreateNotification(j, u, scheduledFor) ==
  LET id == CHOOSE n \in NotifIds :
              /\ notifs[n] = NoNotif
              /\ \A m \in NotifIds : m < n => notifs[m] # NoNotif
      at == IF scheduledFor # Never THEN scheduledFor ELSE now
      doc == Notification("pending", 0, at, Never)
      job == [NewJob("create") EXCEPT !.notif = id, !.doc = doc, !.base = doc]
  IN /\ jobs[j] = IdleJob
     /\ IF ~ authorize({"admin", "doctor", "nurse"}, u)
        THEN /\ jobs' = [jobs EXCEPT ![j] = DoneJob(NewJob("create"), 403)]
             /\ UNCHANGED <<notifs, handed>>
        ELSE /\ \E n \in NotifIds : notifs[n] = NoNotif
             /\ notifs' = [notifs EXCEPT ![id] = doc]
             /\ handed' = [handed EXCEPT ![id] = 0]
             /\ jobs' = [jobs EXCEPT ![j] =
                  IF scheduledFor = Never \/ scheduledFor <= now
                  THEN [job EXCEPT !.pc = "send"]
                  ELSE DoneJob(job, 201)]
     /\ UNCHANGED <<appts, nextId, reqs, now>>

\* router.post('/:id/retry'): authorize, findById and the status test
RetryNotification(j, u, id) ==
  LET notification == notifs[id]
      job == [NewJob("retry") EXCEPT !.notif = id]
  IN /\ jobs[j] = IdleJob
     /\ jobs' = [jobs EXCEPT ![j] =
          IF ~ authorize({"admin"}, u) THEN DoneJob(job, 403)
          ELSE IF notification = NoNotif THEN DoneJob(job, 404)
          ELSE IF notification.status # "failed" THEN DoneJob(job, 400)
          ELSE [job EXCEPT !.pc = "reset", !.base = notification,
                           !.doc = [notification EXCEPT !.status = "pending"]]]
     /\ UNCHANGED <<appts, nextId, reqs, now, notifs, handed>>

\* processPendingEmails: its find
processPendingEmails(j) ==
  LET ids == {n \in NotifIds :
                /\ notifs[n].status = "pending"
                /\ notifs[n].scheduledFor <= now
                /\ notifs[n].attempts < MaxAttempts}
      key == [n \in ids |-> notifs[n].scheduledFor]
  IN /\ jobs[j] = IdleJob
     /\ jobs' = [jobs EXCEPT ![j] =
          StartItem(NewJob("process"), Found(ids, key, ProcessLimit))]
     /\ UNCHANGED <<appts, nextId, reqs, now, notifs, handed>>

\* retryFailedEmails: its find
retryFailedEmails(j) ==
  LET ids == {n \in NotifIds :
                /\ notifs[n].status = "failed"
                /\ notifs[n].attempts < MaxRetries
                /\ notifs[n].lastAttempt # Never
                /\ notifs[n].lastAttempt < now - RetryDelay}
      key == [n \in ids |-> notifs[n].lastAttempt]
  IN /\ jobs[j] = IdleJob
     /\ jobs' = [jobs EXCEPT ![j] =
          StartItem(NewJob("retryFailed"), Found(ids, key, RetryLimit))]
     /\ UNCHANGED <<appts, nextId, reqs, now, notifs, handed>>

\* notification.status = 'pending'; await notification.save(), of the retry
\* route and of retryFailedEmails
ResetSave(j) ==
  LET job == jobs[j]
      id == job.notif
      new == SetModified(notifs[id], job.base, job.doc)
  IN /\ job.pc = "reset"
     /\ notifs' = [notifs EXCEPT ![id] = new]
     /\ handed' = [handed EXCEPT ![id] = PeriodCount(notifs[id], new, @)]
     /\ jobs' = [jobs EXCEPT ![j] = [job EXCEPT !.pc = "send", !.base = job.doc]]
     /\ UNCHANGED <<appts, nextId, reqs, now>>

\* sendEmail: findById, the tests of status and scheduledFor, and the call
\* of sendEmailViaProvider
sendEmail(j) ==
  LET job == jobs[j]
      id == job.notif
      notification == notifs[id]
  IN /\ job.pc = "send"
     /\ IF notification = NoNotif \/ notification.status # "pending"
        THEN /\ jobs' = [jobs EXCEPT ![j] = [job EXCEPT !.pc = "catchFind"]]
             /\ UNCHANGED handed
        ELSE IF notification.scheduledFor > now
        THEN /\ jobs' = [jobs EXCEPT ![j] = Return(job, "false")]
             /\ UNCHANGED handed
        ELSE /\ jobs' = [jobs EXCEPT ![j] =
                  [job EXCEPT !.pc = "provider", !.loaded = notification]]
             /\ handed' = [handed EXCEPT ![id] = @ + 1]
     /\ UNCHANGED <<appts, nextId, reqs, now, notifs>>

\* sendEmailViaProvider answers {success: true} or {success: false}, and
\* sendEmail saves markAsSent or markAsFailed
sendEmailViaProvider(j, success) ==
  LET job == jobs[j]
      id == job.notif
      sent == markAsSent(job.loaded)
      failed == markAsFailed(job.loaded)
  IN /\ job.pc = "provider"
     /\ IF success
        THEN /\ notifs' = [notifs EXCEPT ![id] = SetModified(@, job.loaded, sent)]
             /\ jobs' = [jobs EXCEPT ![j] =
                  Return([job EXCEPT !.provider = "success"], "true")]
        ELSE IF ~ NotifValid(failed, job.loaded)
        THEN /\ jobs' = [jobs EXCEPT ![j] =
                  [job EXCEPT !.provider = "failure", !.pc = "catchFind"]]
             /\ UNCHANGED notifs
        ELSE /\ notifs' = [notifs EXCEPT ![id] = SetModified(@, job.loaded, failed)]
             /\ jobs' = [jobs EXCEPT ![j] =
                  Return([job EXCEPT !.provider = "failure"], "false")]
     /\ UNCHANGED <<appts, nextId, reqs, now, handed>>

\* the catch of sendEmail: findById
sendEmailCatchFind(j) ==
  LET job == jobs[j]
      notification == notifs[job.notif]
  IN /\ job.pc = "catchFind"
     /\ jobs' = [jobs EXCEPT ![j] =
          IF notification = NoNotif THEN Return(job, "throw")
          ELSE [job EXCEPT !.pc = "catchSave", !.loaded = notification]]
     /\ UNCHANGED <<appts, nextId, reqs, now, notifs, handed>>

\* the catch of sendEmail: markAsFailed(error.message), then throw error
sendEmailCatchSave(j) ==
  LET job == jobs[j]
      id == job.notif
      failed == markAsFailed(job.loaded)
  IN /\ job.pc = "catchSave"
     /\ IF NotifValid(failed, job.loaded)
        THEN notifs' = [notifs EXCEPT ![id] = SetModified(@, job.loaded, failed)]
        ELSE UNCHANGED notifs
     /\ jobs' = [jobs EXCEPT ![j] = Return(job, "throw")]
     /\ UNCHANGED <<appts, nextId, reqs, now, handed>>

\* the route's document after sendEmail: sent when it returned, failed when
\* it threw
RouteDoc(job) ==
  IF job.ret = "throw" THEN [job.doc EXCEPT !.status = "failed"]
  ELSE [job.doc EXCEPT !.status = "sent", !.sentAt = now]

\* the save that ends POST / and POST /:id/retry, and the response
RouteSave(j) ==
  LET job == jobs[j]
      id == job.notif
      doc == RouteDoc(job)
      new == SetModified(notifs[id], job.base, doc)
  IN /\ job.pc = "after"
     /\ notifs' = [notifs EXCEPT ![id] = new]
     /\ handed' = [handed EXCEPT ![id] = PeriodCount(notifs[id], new, @)]
     /\ jobs' = [jobs EXCEPT ![j] =
          DoneJob([job EXCEPT !.doc = doc],
                  IF job.kind = "create" THEN 201 ELSE 200)]
     /\ UNCHANGED <<appts, nextId, reqs, now>>

MailUsers == {"a1", "p1"}

\* scheduledFor of a request body: missing, not in the future, in the future
ScheduleInputs == {Never, StartTime, MaxNow}

\* the collection before the jobs start: empty, or one notification that is
\* pending, or failed once long enough ago to be retried
EarlierNotifications ==
  { Notification("pending", 0, StartTime, Never),
    Notification("failed", 1, StartTime, StartTime - RetryDelay - 1) }

InitMail ==
  /\ appts = [i \in ApptIds |-> NoAppt]
  /\ nextId = 1
  /\ reqs = [r \in ReqIds |-> Idle]
  /\ now = StartTime
  /\ \/ notifs = [n \in NotifIds |-> NoNotif]
     \/ \E e \in EarlierNotifications :
          notifs = [n \in NotifIds |-> IF n = 1 THEN e ELSE NoNotif]
  /\ jobs = [j \in JobIds |-> IdleJob]
  /\ handed = [n \in NotifIds |-> 0]

NextMail ==
  \/ \E j \in JobIds, u \in MailUsers, at \in ScheduleInputs :
       CreateNotification(j, u, at)
  \/ \E j \in JobIds, u \in MailUsers, id \in NotifIds : RetryNotification(j, u, id)
  \/ \E j \in JobIds : processPendingEmails(j)
  \/ \E j \in JobIds : retryFailedEmails(j)
  \/ \E j \in JobIds : ResetSave(j)
  \/ \E j \in JobIds : sendEmail(j)
  \/ \E j \in JobIds, success \in BOOLEAN : sendEmailViaProvider(j, success)
  \/ \E j \in JobIds : sendEmailCatchFind(j)
  \/ \E j \in JobIds : sendEmailCatchSave(j)
  \/ \E j \in JobIds : RouteSave(j)
  \/ Tick

SpecMail == InitMail /\ [][NextMail]_vars

----------------------------------------------------------------------------

(* GET /doctor/:doctorId/availability *)

T1030 == <<1, 0, Colon, 3, 0>>
T1100 == <<1, 1, Colon, 0, 0>>
T1130 == <<1, 1, Colon, 3, 0>>
T1400 == <<1, 4, Colon, 0, 0>>
T1430 == <<1, 4, Colon, 3, 0>>
T1500 == <<1, 5, Colon, 0, 0>>
T1530 == <<1, 5, Colon, 3, 0>>
T1600 == <<1, 6, Colon, 0, 0>>
T1630 == <<1, 6, Colon, 3, 0>>

workingHours ==
  <<T0900, T0930, T1000, T1030, T1100, T1130,
    T1400, T1430, T1500, T1530, T1600, T1630>>

\* mutant: the query without its status filter
bookedAppointmentsAnyStatus(store, doctorId, date) ==
  {j \in Stored(store) :
     /\ store[j].doctor = doctorId
     /\ store[j].appointmentDate >= date
     /\ store[j].appointmentDate < date + DayLen}

\* Appointment.find({doctor, appointmentDate: {$gte: searchDate, $lt: nextDay},
\*                   status: {$in: ['pending', 'confirmed']}})
bookedAppointments(store, doctorId, date) ==
  {j \in Stored(store) :
     /\ store[j].doctor = doctorId
     /\ store[j].appointmentDate >= date
     /\ store[j].appointmentDate < date + DayLen
     /\ store[j].status \in ActiveStatuses}

\* mutant: the template returned unfiltered
availableSlotsUnfiltered(store, doctorId, date) == workingHours

\* workingHours.filter(slot => !bookedAppointments.some(a => a.timeSlot.start === slot))
availableSlots(store, doctorId, date) ==
  LET free(slot) == ~ \E j \in bookedAppointments(store, doctorId, date) :
                        store[j].start = slot
  IN SelectSeq(workingHours, free)

bookedSlots(store, doctorId, date) ==
  {<<store[j].start, store[j].end>> : j \in bookedAppointments(store, doctorId, date)}

----------------------------------------------------------------------------
\* The collection before the requests of a run arrive: empty, or holding one
\* appointment that an earlier booking and status updates have left there.
ValidSlots == {slot \in SlotInputs : Minutes(slot[1]) < Minutes(slot[2])}

EarlierAppointments ==
  { [patient |-> "p1", doctor |-> "d1", appointmentDate |-> 0,
     start |-> slot[1], end |-> slot[2], status |-> st,
     reason |-> ValidReason, type |-> "consultation", priority |-> "medium",
     notesPatient |-> Absent, notesDoctor |-> Absent, notesAdmin |-> Absent,
     cancelledBy |-> IF st = "cancelled" THEN "a1" ELSE Absent,
     cancellationReason |-> Absent] :
      slot \in ValidSlots, st \in validStatuses }

Init ==
  /\ \/ /\ appts = [i \in ApptIds |-> NoAppt]
        /\ nextId = 1
     \/ \E a \in EarlierAppointments :
          /\ appts = [i \in ApptIds |-> IF i = 1 THEN a ELSE NoAppt]
          /\ nextId = 2
  /\ reqs = [r \in ReqIds |-> Idle]
  /\ now = StartTime
  /\ MailIdle

StatusInputs == validStatuses \cup {"bogus"}
NotesInputs == {Absent, "note"}

\* bodies of a field update: both date and time slot, or one of them missing
UpdateInputs ==
  {<<date, slot>> : date \in Dates, slot \in SlotInputs}
    \cup {<<NoDate, <<NoTime, NoTime>>>>, <<0, <<NoTime, NoTime>>>>,
          <<NoDate, <<T0900, T1000>>>>}

Next ==
  \/ \E r \in DOMAIN reqs, u \in Users, d \in BookDoctors, date \in Dates,
        slot \in SlotInputs :
       BookBegin(r, u, BookBody(d, date, slot, ValidReason, Absent, Absent, Absent))
  \/ \E r \in DOMAIN reqs : BookSave(r)
  \/ \E r \in DOMAIN reqs, u \in Users, id \in TargetIds,
        status \in StatusInputs, notes \in NotesInputs :
       StatusBegin(r, u, id, status, notes)
  \/ \E r \in DOMAIN reqs : StatusSave(r)
  \/ \E r \in DOMAIN reqs, u \in Users, id \in TargetIds, body \in UpdateInputs :
       UpdateBegin(r, u, id, UpdateBody(body[1], body[2], NoReason, Absent, Absent))
  \/ \E r \in DOMAIN reqs : UpdateCheck(r)
  \/ \E r \in DOMAIN reqs : UpdateSave(r)
  \/ \E r \in DOMAIN reqs, u \in Users, id \in TargetIds : Delete(r, u, id)

Spec == Init /\ [][Next]_vars

----------------------------------------------------------------------------
(* The race for one slot: NumRacers booking requests for the identical     *)
(* doctor, date and time slot, all past validation, saving in any order.   *)

Racers == 1..NumRacers

InitRace ==
  /\ \/ /\ appts = [i \in ApptIds |-> NoAppt]
        /\ nextId = 1
     \/ \E a \in EarlierAppointments :
          /\ appts = [i \in ApptIds |-> IF i = 1 THEN a ELSE NoAppt]
          /\ nextId = 2
  /\ \E date \in Dates, slot \in SlotInputs, who \in [Racers -> Patients] :
       reqs = [r \in Racers |->
                 [NewReq("book", who[r], 0, "d1", date, slot[1], slot[2], Absent)
                    EXCEPT !.pc = "save", !.reason = ValidReason]]
  /\ now = StartTime
  /\ MailIdle

NextRace == \E r \in DOMAIN reqs : BookSave(r)

SpecRace == InitRace /\ [][NextRace]_vars

----------------------------------------------------------------------------
(* The request bodies in full: bookings and field updates whose doctor,    *)
(* date, time slot, reason, type, priority and extra fields vary, while    *)
(* the clock runs.                                                         *)

FieldUsers == {"p1", "n1"}

\* "zz" is a well-formed id that no user has, "p2" a user who is no doctor
FieldDoctors == {"d1", "dx", "p2", "zz"}

FieldSlots == { <<T0900, T0930>>, <<T0930, T0900>> }

\* reasons of 0, 9, 10, 500 and 501 characters, some padded with spaces
BookReasons ==
  { NoReason, <<0, 9, 0>>, <<1, 9, 0>>, <<0, 10, 0>>, <<1, 500, 1>>,
    <<0, 501, 0>> }

UpdateReasons == { NoReason, <<0, 5, 0>>, <<2, 0, 0>>, <<0, 501, 0>> }

TypeInputs == {Absent, "bogus"}

\* a status field in the body of a booking, which the handler never reads
BookStatusInputs == {Absent, "confirmed"}

FieldUpdateSlots == { <<NoDate, <<NoTime, NoTime>>>>, <<1, <<T0900, T1000>>>> }

NextFields ==
  \/ \E r \in DOMAIN reqs, d \in FieldDoctors, date \in Dates,
        slot \in FieldSlots, reason \in BookReasons, type \in TypeInputs,
        status \in BookStatusInputs :
       BookBegin(r, "p1", BookBody(d, date, slot, reason, type, Absent, status))
  \/ \E r \in DOMAIN reqs : BookSave(r)
  \/ \E r \in DOMAIN reqs, u \in FieldUsers, id \in TargetIds,
        body \in FieldUpdateSlots, reason \in UpdateReasons, type \in TypeInputs :
       UpdateBegin(r, u, id, UpdateBody(body[1], body[2], reason, type, Absent))
  \/ \E r \in DOMAIN reqs : UpdateCheck(r)
  \/ \E r \in DOMAIN reqs : UpdateSave(r)
  \/ Tick

\* the collection is empty, or holds one pending appointment
InitFields ==
  /\ \/ /\ appts = [i \in ApptIds |-> NoAppt]
        /\ nextId = 1
     \/ \E a \in EarlierAppointments :
          /\ a.status = "pending" /\ a.start = T0900 /\ a.end = T0930
          /\ appts = [i \in ApptIds |-> IF i = 1 THEN a ELSE NoAppt]
          /\ nextId = 2
  /\ reqs = [r \in ReqIds |-> Idle]
  /\ now = StartTime
  /\ MailIdle

SpecFields == InitFields /\ [][NextFields]_vars

----------------------------------------------------------------------------
(* Access to one appointment: reads, status updates, field updates and     *)
(* deletes of appointment 1 by every user.                                 *)

AccessStatusInputs == {"confirmed", "cancelled"}
AccessUpdateInputs == { <<NoDate, <<NoTime, NoTime>>>>, <<1, <<T0900, T1000>>>> }

NextAccess ==
  \/ \E r \in DOMAIN reqs, u \in Users, id \in TargetIds : ReadBegin(r, u, id)
  \/ \E r \in DOMAIN reqs : ReadFetch(r)
  \/ \E r \in DOMAIN reqs, u \in Users, id \in TargetIds,
        status \in AccessStatusInputs :
       StatusBegin(r, u, id, status, Absent)
  \/ \E r \in DOMAIN reqs : StatusSave(r)
  \/ \E r \in DOMAIN reqs, u \in Users, id \in TargetIds,
        body \in AccessUpdateInputs :
       UpdateBegin(r, u, id, UpdateBody(body[1], body[2], NoReason, Absent, Absent))
  \/ \E r \in DOMAIN reqs : UpdateCheck(r)
  \/ \E r \in DOMAIN reqs : UpdateSave(r)
  \/ \E r \in DOMAIN reqs, u \in Users, id \in TargetIds : Delete(r, u, id)

SpecAccess == Init /\ [][NextAccess]_vars

----------------------------------------------------------------------------
(* The appointment list: list requests by every user over a collection of  *)
(* up to three appointments of two patients with two doctors, while an      *)
(* admin deletes.                                                           *)

ListAppointment(patient, doctor, date, status) ==
  [patient |-> patient, doctor |-> doctor, appointmentDate |-> date,
   start |-> T0900, end |-> T0930, status |-> status,
   reason |-> ValidReason, type |-> "consultation", priority |-> "medium",
   notesPatient |-> Absent, notesDoctor |-> Absent, notesAdmin |-> Absent,
   cancelledBy |-> Absent, cancellationReason |-> Absent]

InitList ==
  /\ \E present \in SUBSET ApptIds, st \in {"pending", "completed"} :
       appts = [i \in ApptIds |->
                  IF i \notin present THEN NoAppt
                  ELSE IF i = 1 THEN ListAppointment("p1", "d1", 0, st)
                  ELSE IF i = 2 THEN ListAppointment("p2", "d1", 1, "pending")
                  ELSE ListAppointment("p1", "d2", 1, "confirmed")]
  /\ nextId = MaxAppts + 1
  /\ reqs = [r \in ReqIds |-> Idle]
  /\ now = StartTime
  /\ MailIdle

\* req.query: no filter, a doctorId, a patientId, both, a status and a date,
\* a second page of one, a page number that is no positive integer
ListInputs ==
  { ListQuery(Absent, NoDate, Absent, Absent, NoNumber, NoNumber),
    ListQuery(Absent, NoDate, "d2", Absent, NoNumber, NoNumber),
    ListQuery(Absent, NoDate, Absent, "p2", NoNumber, NoNumber),
    ListQuery(Absent, NoDate, "d2", "p2", NoNumber, 1),
    ListQuery("pending", 0, Absent, Absent, NoNumber, NoNumber),
    ListQuery(Absent, NoDate, Absent, Absent, 2, 1),
    ListQuery(Absent, NoDate, Absent, Absent, 0, NoNumber) }

NextList ==
  \/ \E r \in DOMAIN reqs, u \in Users, q \in ListInputs : ListFind(r, u, q)
  \/ \E r \in DOMAIN reqs : ListCount(r)
  \/ \E r \in DOMAIN reqs, id \in ApptIds : Delete(r, "a1", id)

SpecList == InitList /\ [][NextList]_vars

----------------------------------------------------------------------------
(* Properties *)

TerminalStatuses == {"cancelled", "completed", "no-show"}

\* [start, end) of a and of b, as minutes since midnight, share a minute
Overlap(a, b) ==
  /\ Minutes(a.start) < Minutes(b.end)
  /\ Minutes(b.start) < Minutes(a.end)

Finishes(r) == reqs[r].pc # "done" /\ reqs'[r].pc = "done"
Saving(r, op) == reqs[r].pc = "save" /\ reqs[r].op = op /\ Finishes(r)

\* C1: for every doctor, any two distinct appointments with status pending
\* or confirmed and the same appointmentDate have non-overlapping
\* [start, end) intervals, in every reachable state.
NoActiveOverlap ==
  \A i, j \in Active(appts) :
    (/\ i # j
     /\ appts[i].doctor = appts[j].doctor
     /\ appts[i].appointmentDate = appts[j].appointmentDate)
      => ~ Overlap(appts[i], appts[j])

\* C2: NumRacers concurrent bookings of one bookable slot, saved in any
\* order: at every moment at most one has been answered 201 and the others
\* answered so far 409; when all are answered exactly one has 201 and
\* NumRacers - 1 have 409; the winner's appointment is the only active one
\* with its doctor, date and time slot.
RaceDone == {r \in Racers : reqs[r].pc = "done"}
RaceWinners == {r \in RaceDone : reqs[r].resp = 201}
RaceLosers == {r \in RaceDone : reqs[r].resp = 409}

\* ids of the appointments the racers created
RaceCreated == {reqs[r].appt : r \in RaceWinners}

\* the slot the racers in flight ask for is a valid time range that no
\* appointment from before the race holds in an active status
RaceSlotBookable(rec) ==
  /\ Minutes(rec.start) < Minutes(rec.end)
  /\ ~ \E j \in Active(appts) \ RaceCreated :
         IndexKey(appts[j]) = IndexKey(NewAppointment(rec))

ExactlyOneWins ==
  /\ Cardinality(RaceWinners) <= 1
  /\ \A w \in RaceWinners :
       {j \in Active(appts) : IndexKey(appts[j]) = IndexKey(appts[reqs[w].appt])}
         = {reqs[w].appt}
  /\ \A r \in Racers \ RaceDone :
       (RaceSlotBookable(reqs[r]) /\ RaceDone # {})
         => /\ Cardinality(RaceWinners) = 1
            /\ RaceLosers = RaceDone \ RaceWinners
  /\ (RaceDone = Racers /\ RaceWinners # {})
       => /\ Cardinality(RaceWinners) = 1
          /\ Cardinality(RaceLosers) = NumRacers - 1

RaceWitness ==
  /\ RaceDone = Racers
  /\ Cardinality(RaceWinners) = 1
  /\ Cardinality(RaceLosers) = NumRacers - 1
  /\ \E w \in RaceWinners, l \in RaceLosers : reqs[w].user # reqs[l].user

\* C3: every save that runs into the unique index, whichever operation does
\* it, is answered 409 and never 500.
HitsUniqueIndex(rec) ==
  IF rec.op = "book"
  THEN PreSaveOk(NewAppointment(rec)) /\ DuplicateKey(appts, nextId, NewAppointment(rec))
  ELSE LET doc == IF rec.op = "status" THEN StatusDoc(rec) ELSE UpdateDoc(rec)
       IN /\ PreSaveOk(doc)
          /\ appts[rec.appt] # NoAppt
          /\ DuplicateKey(appts, rec.appt, SetModified(appts[rec.appt], rec.snap, doc))

UniquenessViolationIs409 ==
  [][\A r \in DOMAIN reqs :
       (reqs[r].pc = "save" /\ Finishes(r) /\ HitsUniqueIndex(reqs[r]))
         => reqs'[r].resp = 409]_vars

\* The transition table of the lifecycle manager: (from, to) rows.
TableRows ==
  { <<"pending", "confirmed">>, <<"pending", "cancelled">>,
    <<"confirmed", "cancelled">>, <<"confirmed", "completed">>,
    <<"pending", "no-show">>, <<"confirmed", "no-show">> }

\* C4: a status update whose (current status, requested status) pair is not
\* a row of the transition table is not answered 200 and leaves the stored
\* status unchanged.
OnlyTableTransitions ==
  [][\A r \in DOMAIN reqs :
       (/\ Saving(r, "status")
        /\ appts[reqs[r].appt] # NoAppt
        /\ <<appts[reqs[r].appt].status, reqs[r].status>> \notin TableRows)
         => /\ reqs'[r].resp # 200
            /\ appts'[reqs[r].appt].status = appts[reqs[r].appt].status]_vars

\* C5: cancelled, completed and no-show are terminal: no step takes an
\* appointment from one of them to pending or confirmed.
TerminalStaysTerminal ==
  [][\A i \in ApptIds :
       appts[i].status \in TerminalStatuses
         => appts'[i].status \notin ActiveStatuses]_vars

\* C6: a cancel request by the owning patient on an appointment that is not
\* pending is answered 403 and changes nothing.
PatientCancelsOnlyPending ==
  [][\A r \in DOMAIN reqs :
       (/\ Saving(r, "status")
        /\ reqs[r].status = "cancelled"
        /\ RoleOf(reqs[r].user) = "patient"
        /\ appts[reqs[r].appt] # NoAppt
        /\ reqs[r].user = appts[reqs[r].appt].patient
        /\ reqs[r].snap.status # "pending"
        /\ appts[reqs[r].appt].status # "pending")
         => /\ reqs'[r].resp = 403
            /\ appts' = appts]_vars

\* C7: confirmed -> completed succeeds only for the doctor who owns the
\* appointment; from an admin, a nurse or a patient it is answered 403 and
\* the status stays confirmed.
OnlyOwningDoctorCompletes ==
  [][\A r \in DOMAIN reqs :
       (/\ Saving(r, "status")
        /\ reqs[r].status = "completed"
        /\ reqs[r].snap.status = "confirmed"
        /\ appts[reqs[r].appt] # NoAppt
        /\ appts[reqs[r].appt].status = "confirmed"
        /\ reqs[r].user # appts[reqs[r].appt].doctor)
         => /\ reqs'[r].resp = 403
            /\ appts'[reqs[r].appt].status = "confirmed"]_vars

Range(seq) == {seq[i] : i \in 1..Len(seq)}

\* every active appointment is listed as booked, and its start is not
\* offered, by the availability query for its doctor and date
BookedShown(store) ==
  \A i \in Active(store) :
    /\ store[i].start
         \notin Range(availableSlots(store, store[i].doctor, store[i].appointmentDate))
    /\ <<store[i].start, store[i].end>>
         \in bookedSlots(store, store[i].doctor, store[i].appointmentDate)

\* a status update cancels the booking that alone held a template slot start
\* in the day window of its date
CancelsSoleHolder(r) ==
  LET id == reqs[r].appt
      a == appts[id]
  IN /\ Saving(r, "status")
     /\ a.status \in ActiveStatuses
     /\ appts'[id].status = "cancelled"
     /\ a.start \in Range(workingHours)
     /\ \A j \in bookedAppointments(appts, a.doctor, a.appointmentDate) :
          j # id => appts[j].start # a.start

SlotOfTerminal(rec) ==
  /\ \E j \in Stored(appts) :
       /\ appts[j].status \in TerminalStatuses
       /\ IndexKey(appts[j]) = IndexKey(NewAppointment(rec))
  /\ ~ \E j \in Active(appts) : IndexKey(appts[j]) = IndexKey(NewAppointment(rec))

TerminalFreesSlot ==
  [][\A r \in DOMAIN reqs :
       (Saving(r, "book") /\ SlotOfTerminal(reqs[r]))
         => /\ reqs'[r].resp = 201
            /\ appts'[reqs'[r].appt] = NewAppointment(reqs[r])]_vars

FreedSlotWitness ==
  \E r \in DOMAIN reqs, j \in Stored(appts) :
    /\ reqs[r].pc = "done" /\ reqs[r].op = "book" /\ reqs[r].resp = 201
    /\ j # reqs[r].appt
    /\ appts[reqs[r].appt] # NoAppt
    /\ appts[j].status \in TerminalStatuses
    /\ IndexKey(appts[j]) = IndexKey(appts[reqs[r].appt])
    /\ appts[j].patient # appts[reqs[r].appt].patient

\* C10: a reschedule of an active appointment to a slot that overlaps no
\* other active appointment of its doctor, but overlaps or equals its own
\* current slot, is not answered 409.
OverlapsOnlyItself(rec) ==
  LET a == appts[rec.appt]
      new == [start |-> rec.start, end |-> rec.end]
  IN /\ a # NoAppt
     /\ a = rec.snap
     /\ a.status \in ActiveStatuses
     /\ Minutes(rec.start) < Minutes(rec.end)
     /\ rec.appointmentDate = a.appointmentDate
     /\ Overlap(a, new)
     /\ \A j \in Active(appts) :
          (/\ j # rec.appt
           /\ appts[j].doctor = a.doctor
           /\ appts[j].appointmentDate = rec.appointmentDate)
            => ~ Overlap(appts[j], new)

RescheduleIgnoresOwnSlot ==
  [][\A r \in DOMAIN reqs :
       (/\ reqs[r].pc = "check"
        /\ reqs'[r].pc # "check"
        /\ OverlapsOnlyItself(reqs[r]))
         => reqs'[r].pc = "save"]_vars

\* the new slot of a reschedule shares a minute with an active appointment,
\* other than the one being moved, of the same doctor on the new date
OverlapsAnother(rec) ==
  /\ Minutes(rec.start) < Minutes(rec.end)
  /\ \E j \in Active(appts) :
       /\ j # rec.appt
       /\ appts[j].doctor = rec.snap.doctor
       /\ appts[j].appointmentDate = rec.appointmentDate
       /\ Overlap(appts[j], [start |-> rec.start, end |-> rec.end])

\* C11: a reschedule whose new date and time slot overlap another active
\* appointment of the same doctor is answered 409 and changes nothing in
\* the store.
RescheduleConflictIs409 ==
  [][\A r \in DOMAIN reqs :
       (/\ reqs[r].pc = "check"
        /\ reqs'[r].pc # "check"
        /\ OverlapsAnother(reqs[r]))
         => /\ reqs'[r].pc = "done"
            /\ reqs'[r].resp = 409
            /\ appts' = appts]_vars

NotAuthorizedToUpdate ==
  "Not authorized to update this appointment or appointment cannot be modified"

\* a field update arrives at request slot r
UpdateArrives(r) == Free(r) /\ reqs'[r].pc # "idle" /\ reqs'[r].op = "update"

\* C12: a field update or reschedule of an existing appointment, asked by a
\* doctor (the owning doctor included) or by the owning patient while the
\* status is not pending, is answered 403 at once and changes no field; no
\* field update by a doctor, or by a patient who did not read the
\* appointment as pending, ever gets to its save.
UpdateForbiddenForDoctorAndLatePatient ==
  [][/\ \A r \in DOMAIN reqs :
          (/\ UpdateArrives(r)
           /\ appts[reqs'[r].appt] # NoAppt
           /\ \/ RoleOf(reqs'[r].user) = "doctor"
              \/ /\ reqs'[r].user = appts[reqs'[r].appt].patient
                 /\ appts[reqs'[r].appt].status # "pending")
            => /\ reqs'[r].pc = "done"
               /\ reqs'[r].resp = 403
               /\ appts' = appts
     /\ \A r \in DOMAIN reqs :
          (reqs'[r].pc \in {"check", "save"} /\ reqs'[r].op = "update")
            => /\ RoleOf(reqs'[r].user) # "doctor"
               /\ RoleOf(reqs'[r].user) = "patient"
                    => /\ reqs'[r].snap.status = "pending"
                       /\ reqs'[r].snap.patient = reqs'[r].user]_vars

UpdateForbiddenWitness ==
  \E r, q \in DOMAIN reqs :
    /\ reqs[r].pc = "done" /\ reqs[r].op = "update" /\ reqs[r].resp = 403
    /\ reqs[r].message = NotAuthorizedToUpdate
    /\ appts[reqs[r].appt] # NoAppt
    /\ reqs[r].user = appts[reqs[r].appt].doctor
    /\ reqs[q].pc = "done" /\ reqs[q].op = "update" /\ reqs[q].resp = 403
    /\ reqs[q].message = NotAuthorizedToUpdate
    /\ reqs[q].appt = reqs[r].appt
    /\ reqs[q].user = appts[reqs[q].appt].patient
    /\ appts[reqs[q].appt].status = "confirmed"

\* C13: every appointment that a booking stores has status pending, also
\* when the body of the booking carries a status of its own.
BookedIsPending ==
  [][/\ \A i \in ApptIds :
          (appts[i] = NoAppt /\ appts'[i] # NoAppt) => appts'[i].status = "pending"
     /\ \A r \in DOMAIN reqs :
          (Saving(r, "book") /\ reqs'[r].resp = 201)
            => /\ appts[reqs'[r].appt] = NoAppt
               /\ appts'[reqs'[r].appt].status = "pending"]_vars

BookedIsPendingWitness ==
  \E r \in DOMAIN reqs :
    /\ reqs[r].pc = "done" /\ reqs[r].op = "book" /\ reqs[r].resp = 201
    /\ reqs[r].extra = "confirmed"
    /\ appts[reqs[r].appt] # NoAppt
    /\ appts[reqs[r].appt].status = "pending"

\* a booking arrives at request slot r
BookArrives(r) == Free(r) /\ reqs'[r].pc # "idle" /\ reqs'[r].op = "book"

\* C14: a booking by a caller whose role is not patient is answered 403 at
\* once and stores nothing; every appointment a booking stores has the
\* caller, a patient, as its patient.
OnlyPatientsBook ==
  [][/\ \A r \in DOMAIN reqs :
          (BookArrives(r) /\ RoleOf(reqs'[r].user) # "patient")
            => /\ reqs'[r].pc = "done"
               /\ reqs'[r].resp = 403
               /\ appts' = appts
     /\ \A r \in DOMAIN reqs :
          (Saving(r, "book") /\ reqs'[r].resp = 201)
            => /\ appts[reqs'[r].appt] = NoAppt
               /\ appts'[reqs'[r].appt].patient = reqs[r].user
               /\ RoleOf(reqs[r].user) = "patient"
     /\ \A i \in ApptIds :
          (appts[i] = NoAppt /\ appts'[i] # NoAppt)
            => /\ RoleOf(appts'[i].patient) = "patient"
               /\ \E r \in DOMAIN reqs :
                    Saving(r, "book") /\ reqs[r].user = appts'[i].patient]_vars

OnlyPatientsBookWitness ==
  \E r, q \in DOMAIN reqs :
    /\ reqs[r].pc = "done" /\ reqs[r].op = "book" /\ reqs[r].resp = 403
    /\ RoleOf(reqs[r].user) = "doctor"
    /\ reqs[q].pc = "done" /\ reqs[q].op = "book" /\ reqs[q].resp = 201
    /\ appts[reqs[q].appt] # NoAppt
    /\ appts[reqs[q].appt].patient = reqs[q].user
    /\ reqs[q].user = "p2"

InvalidDoctorSelected == "Invalid or inactive doctor selected"

\* C15: a booking by a patient whose doctor id has no user, or an inactive
\* user, or a user who is no doctor, is answered 400 at once and stores
\* nothing; when the rest of the body is valid the error is the
\* invalid-doctor one.  No booking with such a doctor gets to its save.
InvalidDoctorRejected ==
  [][/\ \A r \in DOMAIN reqs :
          (/\ BookArrives(r)
           /\ RoleOf(reqs'[r].user) = "patient"
           /\ ~ (/\ reqs'[r].doctor \in Directory
                 /\ DirRole(reqs'[r].doctor) = "doctor"
                 /\ IsActive(reqs'[r].doctor)))
            => /\ reqs'[r].pc = "done"
               /\ reqs'[r].resp = 400
               /\ reqs'[r].errors = {} => reqs'[r].message = InvalidDoctorSelected
               /\ appts' = appts
     /\ \A i \in ApptIds :
          (appts[i] = NoAppt /\ appts'[i] # NoAppt)
            => /\ appts'[i].doctor \in Directory
               /\ DirRole(appts'[i].doctor) = "doctor"
               /\ IsActive(appts'[i].doctor)]_vars

InvalidDoctorWitness ==
  \E r, q \in DOMAIN reqs :
    /\ reqs[r].pc = "done" /\ reqs[r].op = "book" /\ reqs[r].resp = 400
    /\ reqs[r].message = InvalidDoctorSelected
    /\ reqs[r].doctor = "zz"
    /\ reqs[q].pc = "done" /\ reqs[q].op = "book" /\ reqs[q].resp = 400
    /\ reqs[q].message = InvalidDoctorSelected
    /\ reqs[q].doctor \in {"dx", "p2"}
    /\ Stored(appts) = {}

\* C16: a booking by a patient whose appointmentDate is the current time or
\* earlier is answered 400 by the validation, with appointmentDate among
\* the failing fields, and stores nothing; a date strictly after the
\* current time does not fail that check; a booking goes on to its save
\* only with a date after the current time, and a document is stored only
\* while its date is after the current time.
PastDateRejected ==
  [][/\ \A r \in DOMAIN reqs :
          (/\ BookArrives(r)
           /\ RoleOf(reqs'[r].user) = "patient"
           /\ reqs'[r].appointmentDate <= now)
            => /\ reqs'[r].pc = "done"
               /\ reqs'[r].resp = 400
               /\ reqs'[r].message = "Validation failed"
               /\ "appointmentDate" \in reqs'[r].errors
               /\ appts' = appts
     /\ \A r \in DOMAIN reqs :
          (/\ BookArrives(r)
           /\ reqs'[r].appointmentDate > now
           /\ reqs'[r].pc = "done")
            => "appointmentDate" \notin reqs'[r].errors
     /\ \A r \in DOMAIN reqs :
          (BookArrives(r) /\ reqs'[r].pc = "save")
            => reqs'[r].appointmentDate > now
     /\ \A i \in ApptIds :
          (appts[i] = NoAppt /\ appts'[i] # NoAppt)
            => appts'[i].appointmentDate > now]_vars

PastDateWitness ==
  \E r, q \in DOMAIN reqs :
    /\ reqs[r].pc = "done" /\ reqs[r].op = "book" /\ reqs[r].resp = 400
    /\ reqs[r].errors = {"appointmentDate"}
    /\ reqs[r].appointmentDate = now
    /\ reqs[q].pc = "done" /\ reqs[q].op = "book" /\ reqs[q].resp = 400
    /\ reqs[q].errors = {"appointmentDate"}
    /\ reqs[q].appointmentDate < now
    /\ Stored(appts) = {}

\* C17: a booking that gets to its save with a time slot whose start is not
\* before its end, in minutes, and nothing else wrong, is answered with a
\* 400-class error and stores nothing.
InvalidRangeIs400 ==
  [][\A r \in DOMAIN reqs :
       (/\ Saving(r, "book")
        /\ SchemaValid(NewAppointment(reqs[r]), DOMAIN NewAppointment(reqs[r]))
        /\ Minutes(reqs[r].start) >= Minutes(reqs[r].end))
         => /\ reqs'[r].resp \in 400..499
            /\ appts' = appts]_vars

\* C18: every stored appointment has its start strictly before its end, as
\* minutes since midnight, in every reachable state.
StartBeforeEnd ==
  \A i \in Stored(appts) : Minutes(appts[i].start) < Minutes(appts[i].end)

\* appointment 1, which was in the collection on date 0 before the run, has
\* been moved to date 1 by a reschedule, and another reschedule of it, to a
\* slot that ends before it starts, has failed
StartBeforeEndWitness ==
  \E r, q \in DOMAIN reqs :
    /\ reqs[r].pc = "done" /\ reqs[r].op = "update" /\ reqs[r].resp = 200
    /\ reqs[q].pc = "done" /\ reqs[q].op = "update" /\ reqs[q].resp = 500
    /\ nextId = 2
    /\ appts[1] # NoAppt
    /\ appts[1].appointmentDate = 1
    /\ appts[1].start = T900

\* C19: the reason of every stored appointment is between ReasonMin and
\* ReasonMax characters long, in every reachable state.
ReasonLengthInRange ==
  \A i \in Stored(appts) :
    /\ StrLen(appts[i].reason) >= ReasonMin
    /\ StrLen(appts[i].reason) <= ReasonMax

\* the start strings of the pending and confirmed appointments of doctor d
\* in the day that begins at date
ActiveStarts(d, date) ==
  {appts[j].start :
     j \in {i \in Stored(appts) :
              /\ appts[i].doctor = d
              /\ appts[i].status \in {"pending", "confirmed"}
              /\ appts[i].appointmentDate >= date
              /\ appts[i].appointmentDate < date + DayLen}}

\* seq lists, in the order of the template, the template slots outside starts
ListsTemplateWithout(seq, starts) ==
  LET listed == Range(seq)
      keep(slot) == slot \in listed
  IN /\ listed = Range(workingHours) \ starts
     /\ seq = SelectSeq(workingHours, keep)
     /\ starts = {} => seq = workingHours

\* C20: for every doctor and date, in every reachable state, a slot of the
\* working-hours template is in the availableSlots of the availability
\* query exactly when no pending or confirmed appointment of that doctor on
\* that date starts at that slot string; nothing else is listed, the
\* template's order is kept, and with no such appointment the list is the
\* whole template.
AvailableIffNoActiveStart ==
  \A d \in Doctors, date \in Dates :
    ListsTemplateWithout(availableSlots(appts, d, date), ActiveStarts(d, date))

\* one doctor has an active appointment on a template slot and a terminal
\* one, the other doctor has none
AvailableWitness ==
  \E i \in Active(appts), j \in Stored(appts) \ Active(appts) :
    /\ appts[i].doctor = "d1"
    /\ appts[i].start = T0900
    /\ T0900 \notin Range(availableSlots(appts, "d1", appts[i].appointmentDate))
    /\ T0930 \in Range(availableSlots(appts, "d1", appts[i].appointmentDate))
    /\ Len(availableSlots(appts, "d1", appts[i].appointmentDate))
         = Len(workingHours) - 1
    /\ appts[j].doctor = "d1"
    /\ availableSlots(appts, "d2", appts[i].appointmentDate) = workingHours

AccessDenied == "Access denied to this appointment."

\* the authorization predicate shared by the operations on one appointment
OwnerOrStaff(u, a) ==
  \/ RoleOf(u) = "admin"
  \/ RoleOf(u) = "nurse"
  \/ RoleOf(u) = "doctor" /\ u = a.doctor
  \/ RoleOf(u) = "patient" /\ u = a.patient

\* a read, status update or field update arrives at request slot r
GatedArrives(r) ==
  Free(r) /\ reqs'[r].pc # "idle" /\ reqs'[r].op \in {"read", "status", "update"}

\* C21: a read, status update or field update of an existing appointment
\* passes the access gate exactly when the caller is admin, nurse, the
\* doctor of the appointment or the patient of the appointment; every other
\* caller is answered 403 by the gate and nothing changes; a read that
\* passes the gate goes on to fetch and return the appointment.
AccessIffOwnerOrStaff ==
  [][/\ \A r \in DOMAIN reqs :
          (GatedArrives(r) /\ appts[reqs'[r].appt] # NoAppt)
            => IF OwnerOrStaff(reqs'[r].user, appts[reqs'[r].appt])
               THEN /\ ~ (reqs'[r].pc = "done" /\ reqs'[r].message = AccessDenied)
                    /\ reqs'[r].op = "read" => reqs'[r].pc = "fetch"
               ELSE /\ reqs'[r].pc = "done"
                    /\ reqs'[r].resp = 403
                    /\ reqs'[r].message = AccessDenied
                    /\ appts' = appts
     /\ \A r \in DOMAIN reqs :
          (reqs[r].pc = "fetch" /\ Finishes(r))
            => /\ OwnerOrStaff(reqs[r].user, reqs[r].snap)
               /\ reqs'[r].resp = 200
               /\ reqs'[r].result \subseteq {reqs[r].appt}]_vars

AccessWitness ==
  \E r, q \in DOMAIN reqs :
    /\ reqs[r].pc = "done" /\ reqs[r].op = "read" /\ reqs[r].resp = 403
    /\ reqs[r].message = AccessDenied
    /\ reqs[r].user = "d2"
    /\ reqs[q].pc = "done" /\ reqs[q].op = "read" /\ reqs[q].resp = 200
    /\ reqs[q].result = {1}
    /\ appts[1] # NoAppt
    /\ reqs[q].user = appts[1].doctor

\* a list request arrives at request slot r and its page is fetched
ListFetched(r) == Free(r) /\ reqs'[r].pc = "count" /\ reqs'[r].op = "list"

\* C22: every appointment on the page returned to a patient has the caller
\* as patient, and every one returned to a doctor has the caller as doctor,
\* whatever doctorId or patientId the query carries; the query of an admin
\* or a nurse carries no restriction to the caller, and without filters
\* their first page lists the whole collection.
ListScopedByCaller ==
  [][\A r \in DOMAIN reqs :
       ListFetched(r)
         => LET u == reqs'[r].user
                f == reqs'[r].filter
            IN /\ RoleOf(u) = "patient"
                    => \A i \in reqs'[r].result : appts[i].patient = u
               /\ RoleOf(u) = "doctor"
                    => \A i \in reqs'[r].result : appts[i].doctor = u
               /\ RoleOf(u) \in {"admin", "nurse"}
                    => /\ f.patient # u /\ f.doctor # u
                       /\ (/\ f.patient = Absent /\ f.doctor = Absent
                           /\ f.status = Absent /\ f.date = NoDate
                           /\ reqs'[r].page = 1
                           /\ reqs'[r].limit >= Cardinality(Stored(appts)))
                            => reqs'[r].result = Stored(appts)]_vars

\* doctor d1 asked for the list with doctorId d2 and got appointments of
\* his own only, while d2 has one; patient p1 got her own only, while p2
\* has one
ListWitness ==
  \E r, q \in DOMAIN reqs :
    /\ reqs[r].pc = "done" /\ reqs[r].op = "list" /\ reqs[r].resp = 200
    /\ reqs[r].user = "d1" /\ reqs[r].doctor = "d2"
    /\ reqs[r].result # {}
    /\ \A i \in reqs[r].result : appts[i] # NoAppt /\ appts[i].doctor = "d1"
    /\ \E j \in Stored(appts) : appts[j].doctor = "d2"
    /\ reqs[q].pc = "done" /\ reqs[q].op = "list" /\ reqs[q].resp = 200
    /\ reqs[q].user = "p1"
    /\ reqs[q].result # {}
    /\ \A i \in reqs[q].result : appts[i] # NoAppt /\ appts[i].patient = "p1"
    /\ \E j \in Stored(appts) : appts[j].patient = "p2"

NotesFieldOf(u) ==
  IF RoleOf(u) = "doctor" THEN "notesDoctor"
  ELSE IF RoleOf(u) = "patient" THEN "notesPatient"
  ELSE "notesAdmin"

NotesFields == {"notesDoctor", "notesPatient", "notesAdmin"}

\* C24: a status update with notes that is answered 200 leaves the notes
\* fields of the other roles as they are stored, and leaves the field of the
\* caller's role (doctor, patient, or admin for admin and nurse) equal to
\* the notes; a save of any other kind changes no notes field.
NotesWrittenByRole ==
  [][/\ \A r \in DOMAIN reqs :
          (Saving(r, "status") /\ reqs'[r].resp = 200 /\ reqs[r].notes # Absent)
            => LET i == reqs[r].appt
                   own == NotesFieldOf(reqs[r].user)
               IN /\ \A f \in NotesFields \ {own} : appts'[i][f] = appts[i][f]
                  /\ appts[i][own] = reqs[r].snap[own]
                       => appts'[i][own] = reqs[r].notes
     /\ \A i \in ApptIds : \A f \in NotesFields :
          (appts[i] # NoAppt /\ appts'[i] # NoAppt /\ appts'[i][f] # appts[i][f])
            => \E r \in DOMAIN reqs :
                 /\ Saving(r, "status") /\ reqs[r].appt = i
                 /\ reqs[r].notes # Absent
                 /\ f = NotesFieldOf(reqs[r].user)]_vars

\* a doctor's status update with notes is done and only the doctor's notes
\* field of the appointment is set
NotesWitness ==
  \E r \in DOMAIN reqs :
    /\ reqs[r].pc = "done" /\ reqs[r].op = "status" /\ reqs[r].resp = 200
    /\ RoleOf(reqs[r].user) = "doctor"
    /\ appts[reqs[r].appt] # NoAppt
    /\ appts[reqs[r].appt].notesDoctor = "note"
    /\ appts[reqs[r].appt].notesPatient = Absent
    /\ appts[reqs[r].appt].notesAdmin = Absent

----------------------------------------------------------------------------
(* Field updates with every combination of the five body fields, by the    *)
(* owning patient, a nurse and the doctor, over one stored appointment of  *)
(* any status.                                                             *)

PartialDates == {NoDate, 1}
PartialSlots == { <<NoTime, NoTime>>, <<T0900, T1000>> }
PartialReasons == {NoReason, <<1, 12, 0>>}
PartialTypes == {Absent, "follow-up"}
PartialPriorities == {Absent, "urgent"}
PartialUsers == {"p1", "n1", "d1"}

NextUpdate ==
  \/ \E r \in DOMAIN reqs, u \in PartialUsers, id \in TargetIds,
        date \in PartialDates, slot \in PartialSlots,
        reason \in PartialReasons, type \in PartialTypes,
        priority \in PartialPriorities :
       UpdateBegin(r, u, id, UpdateBody(date, slot, reason, type, priority))
  \/ \E r \in DOMAIN reqs : UpdateCheck(r)
  \/ \E r \in DOMAIN reqs : UpdateSave(r)
  \/ Tick

SpecUpdate == Init /\ [][NextUpdate]_vars

\* C25: a field update whose body has only one of appointmentDate and
\* timeSlot goes to its save without an availability check and its save
\* leaves the stored date and time slot as they are; a save answered 200
\* leaves reason (trimmed), type and priority equal to the body's values
\* when the body carries them (for a field not rewritten since the request
\* loaded the appointment); and the save of a field update never changes
\* status, patient or doctor.
PartialUpdateKeepsSchedule ==
  [][\A r \in DOMAIN reqs :
       /\ (UpdateArrives(r) /\ ~ Reschedules(reqs'[r]))
            => reqs'[r].pc # "check" /\ reqs'[r].resp # 409
       /\ Saving(r, "update") =>
            LET i == reqs[r].appt
                rec == reqs[r]
            IN /\ ~ Reschedules(rec) =>
                    /\ appts'[i].appointmentDate = appts[i].appointmentDate
                    /\ appts'[i].start = appts[i].start
                    /\ appts'[i].end = appts[i].end
               /\ appts'[i].status = appts[i].status
               /\ appts'[i].patient = appts[i].patient
               /\ appts'[i].doctor = appts[i].doctor
               /\ reqs'[r].resp = 200 =>
                    /\ (rec.reason # NoReason /\ appts[i].reason = rec.snap.reason)
                         => appts'[i].reason = Trim(rec.reason)
                    /\ (rec.type # Absent /\ appts[i].type = rec.snap.type)
                         => appts'[i].type = rec.type
                    /\ (rec.priority # Absent /\ appts[i].priority = rec.snap.priority)
                         => appts'[i].priority = rec.priority]_vars

\* an update that carried a date but no time slot, with a new reason, type
\* and priority, is done with 200: the three fields are stored and the
\* appointment is still at its first date and slot
PartialUpdateWitness ==
  \E r \in DOMAIN reqs :
    /\ reqs[r].pc = "done" /\ reqs[r].op = "update" /\ reqs[r].resp = 200
    /\ reqs[r].extra = "partial"
    /\ appts[1] # NoAppt
    /\ appts[1].appointmentDate = 0
    /\ appts[1].reason = <<0, 12, 0>>
    /\ appts[1].type = "follow-up"
    /\ appts[1].priority = "urgent"

\* another appointment, pending or confirmed, holds the doctor, date and
\* time slot of appointment i
KeyHeldByAnother(i) ==
  \E j \in Active(appts) : j # i /\ IndexKey(appts[j]) = IndexKey(appts[i])

\* C26: the save of a status update to pending or confirmed, of an
\* appointment that was loaded in a terminal status while another pending or
\* confirmed appointment holds its doctor, date and time slot, is answered
\* with an error and changes no appointment.
RevivalOntoTakenSlotFails ==
  [][\A r \in DOMAIN reqs :
       (/\ Saving(r, "status")
        /\ reqs[r].status \in ActiveStatuses
        /\ reqs[r].snap.status \in TerminalStatuses
        /\ appts[reqs[r].appt] # NoAppt
        /\ KeyHeldByAnother(reqs[r].appt))
         => /\ reqs'[r].resp = 500
            /\ appts' = appts]_vars

\* a status update back to pending or confirmed has failed, the appointment
\* is still terminal and another appointment is active in its slot
RevivalWitness ==
  \E r \in DOMAIN reqs :
    /\ reqs[r].pc = "done" /\ reqs[r].op = "status" /\ reqs[r].resp = 500
    /\ reqs[r].message = "Failed to update appointment status"
    /\ appts[reqs[r].appt] # NoAppt
    /\ appts[reqs[r].appt].status \in TerminalStatuses
    /\ KeyHeldByAnother(reqs[r].appt)

\* the calendar days (their midnights) whose day window holds the instant t
DaysOf(t) == {T \in (t - DayLen + 1)..t : T % DayLen = 0}

\* the availability query for the doctor and a calendar day that holds the
\* date lists the time slot as booked
ListedBooked(store, doctorId, date, start, end) ==
  \E T \in DaysOf(date) : <<start, end>> \in bookedSlots(store, doctorId, T)

\* C27: a booking, or a reschedule, that reaches its save while the
\* availability query for its doctor and the calendar day of its date lists
\* its time slot in bookedSlots is not accepted: it is not answered 201 or
\* 200 and stores nothing.
AvailabilityAgreesWithConflicts ==
  [][\A r \in DOMAIN reqs :
       /\ (/\ Saving(r, "book")
           /\ ListedBooked(appts, reqs[r].doctor, reqs[r].appointmentDate,
                           reqs[r].start, reqs[r].end))
            => reqs'[r].resp # 201 /\ appts' = appts
       /\ (/\ Saving(r, "update") /\ Reschedules(reqs[r])
           /\ ListedBooked(appts, reqs[r].snap.doctor, reqs[r].appointmentDate,
                           reqs[r].start, reqs[r].end))
            => reqs'[r].resp # 200 /\ appts' = appts]_vars

\* job j ends a create-and-send or an admin retry with its last save
RouteEnds(j) ==
  /\ jobs[j].pc = "after" /\ jobs'[j].pc = "done"
  /\ jobs[j].kind \in {"create", "retry"}

\* C28: the save that ends a create-and-send or an admin retry leaves the
\* notification in status sent only if the provider reported success to the
\* request's sendEmail, and never when its sendEmail returned false.
SentOnlyOnProviderSuccess ==
  [][\A j \in JobIds :
       RouteEnds(j) =>
         /\ notifs'[jobs[j].notif].status = "sent"
              => jobs[j].provider = "success"
         /\ jobs[j].ret = "false"
              => /\ notifs'[jobs[j].notif].status # "sent"
                 /\ jobs'[j].status # "sent"]_vars

\* C29: a notification is handed to the provider at most once in each of
\* its pending periods, and once its stored status is sent it stays sent.
HandedOncePerPeriodAndSentIsFinal ==
  [][\A n \in NotifIds :
       /\ handed'[n] <= 1
       /\ notifs[n].status = "sent" => notifs'[n].status = "sent"]_vars

====
